---- MODULE Spec2Model ----
(***************************************************************************)
(* Model of main.py: run() (dataset check, model construction, training,   *)
(* inference export) and train_nn() (the epoch / batch loop).              *)
(*                                                                         *)
(* train_nn is entered in two ways, as in the source: from run() with the  *)
(* module constants NUM_EPOCHS and BATCH_SIZE and the batch function of    *)
(* helper.gen_batch_function (main.py:177), and directly with arguments    *)
(* of the caller's choice (tests.test_train_nn, main.py:140).              *)
(*                                                                         *)
(* helper.py and project_tests.py (the batch generator, the dataset check, *)
(* the inference export) are modelled from the design document.            *)
(*                                                                         *)
(* A sample is a natural number 1..num_samples; a batch is the sequence of *)
(* the samples in it (the image batch and the label batch of one pair      *)
(* hold the same samples, so one sequence stands for both).                *)
(* A loss is a number of thousandths, or NaN for a diverged step.          *)
(* Probabilities and rates are in thousandths too.                         *)
(***************************************************************************)
EXTENDS Integers, Sequences, FiniteSets

\* ---- program constants (main.py:9-12) ----
NUM_EPOCHS == 50
BATCH_SIZE == 16
KP_VALUE == 500
LR_VALUE == 1

\* ---- bounds of the model ----
MaxEpochs == 2
MaxBatchSize == 2
MaxSamples == 3
MaxRunSamples == 2
MaxStubBatches == 2
MaxTestImages == 2
MaxRunStamps == 2

\* the float "not a number": the loss of a diverged step
NaN == -1

\* what sess.run can return for the loss: nothing, a thousandth, or a diverged value
Losses == {0, 1, NaN}

VARIABLES
    run_pc,        \* position in run(), or "test_harness" for a direct call of train_nn
    dataset_ok,    \* the data directory holds the expected dataset
    num_samples,   \* number of samples of the training set
    num_test_images, \* number of images of the test directory
    gen_kind,      \* "helper": helper.gen_batch_function; "stub": a caller's own generator
    epochs,        \* train_nn's argument epochs
    batch_size,    \* train_nn's argument batch_size
    pc,            \* position in train_nn: Idle, EpochRunning, Done, Raised
    epoch,         \* the loop variable of `for epoch in range(epochs)` (-1: not yet bound)
    total_loss,    \* the accumulator of the current epoch
    batches,       \* what the current epoch's generator has still to yield
    drawn,         \* the batches the loop has drawn from the current generator
    epoch_sum,     \* the sum of the losses returned by the current epoch's optimization steps
    steps,         \* number of optimization steps performed
    yielded,       \* number of batches the generators invoked so far yield in all
    reports,       \* number of "Loss = ..." lines printed
    printed,       \* the last report: the epoch number and the loss printed, and of that
                   \* epoch the sum of the losses its steps returned and its number of batches
    feeds,         \* the (keep_prob, learning_rate) pairs fed to optimization steps
    gen_args,      \* the batch sizes passed to the batch generator
    params,        \* version of the model parameters (number of writes)
    loaded,        \* the pretrained model is loaded into the session
    failed,        \* an optimization step raised
    infer_started, \* save_inference_samples was entered
    output_dir,    \* the timestamped output directory of the run (0: none)
    pending,       \* test images still to be processed
    outputs        \* files written: <<directory, image>>

vars == <<run_pc, dataset_ok, num_samples, gen_kind, epochs, batch_size, pc, epoch,
          total_loss, batches, drawn, epoch_sum, steps, yielded, reports, printed,
          feeds, gen_args, params, loaded, failed, infer_started, output_dir,
          pending, outputs, num_test_images>>

inferVars == <<infer_started, output_dir, pending, outputs>>

configVars == <<dataset_ok, num_samples, num_test_images, gen_kind, epochs, batch_size>>

\* ---- pure helpers ----

\* float addition: NaN is absorbing (total_loss += loss)
FAdd(a, b) == IF a = NaN \/ b = NaN THEN NaN ELSE a + b

RECURSIVE Flatten(_)
Flatten(ss) == IF ss = <<>> THEN <<>> ELSE Head(ss) \o Flatten(Tail(ss))

Range(s) == {s[i] : i \in 1..Len(s)}

NoDup(s) == \A i, j \in 1..Len(s) : s[i] = s[j] => i = j

Min(a, b) == IF a < b THEN a ELSE b

\* ---- the batch generator of helper.gen_batch_function ----

\* every order random.shuffle can leave the samples in
RECURSIVE Perms(_)
Perms(S) == IF S = {} THEN {<<>>}
            ELSE UNION {{<<x>> \o p : p \in Perms(S \ {x})} : x \in S}

\* consecutive groups of b samples; the last group may be short
RECURSIVE Chunks(_, _)
Chunks(s, b) == IF s = <<>> THEN <<>>
                ELSE <<SubSeq(s, 1, Min(b, Len(s)))>>
                     \o Chunks(SubSeq(s, Min(b, Len(s)) + 1, Len(s)), b)

\* the sizes of the training sets the model starts from
TrainingSetSizes == (0..MaxSamples) \cup (0..MaxRunSamples) \cup {4}

\* the batch sizes the generator is invoked with
BatchSizes == (1..MaxBatchSize) \cup {BATCH_SIZE}

\* for a training set of n samples and a batch size b, the batch sequences that one
\* invocation of the generator can yield: one for every shuffle
BatchSequences == [n \in TrainingSetSizes, b \in BatchSizes |->
                      {Chunks(p, b) : p \in Perms(1..n)}]

HelperBatches(b) == BatchSequences[num_samples, b]

\* a caller's own generator: any short sequence of batches
StubBatch == {<<>>, <<1>>}

StubBatches(b) == UNION {[1..k -> StubBatch] : k \in 0..MaxStubBatches}

get_batches_fn(b) == IF gen_kind = "helper" THEN HelperBatches(b) ELSE StubBatches(b)

\* "{:.3f}".format(x) for x in thousandths: the whole part and three decimals, or "nan"
Format3f(x) == IF x = NaN THEN [nan |-> TRUE, whole |-> 0, frac |-> 0]
               ELSE [nan |-> FALSE, whole |-> x \div 1000, frac |-> x % 1000]

\* ---- train_nn (main.py:111-138) ----

\* the loop runs once more than range(epochs) does
RangeHasNextInclusive(e, n) == e <= n

\* range(epochs) has a value e left to give
RangeHasNext(e, n) == e < n

\* the accumulator is not reset
CarriedTotalLoss(prev) == prev

\* total_loss = 0 at the top of the epoch body
InitialTotalLoss(prev) == 0

\* the module constant is passed in place of the argument
GeneratorArgGlobal(bs) == BATCH_SIZE

\* the argument of get_batches_fn(batch_size)
GeneratorArg(bs) == bs

\* the learning rate is scaled by the size of the batch
FeedDictScaled(X, y) == [input_image |-> X, correct_label |-> y,
                         keep_prob |-> KP_VALUE, learning_rate |-> LR_VALUE * Len(X)]

\* the feed_dict of one optimization step
FeedDict(X, y) == [input_image |-> X, correct_label |-> y,
                   keep_prob |-> KP_VALUE, learning_rate |-> LR_VALUE]

\* total_loss += loss
Accumulate(total, loss) == FAdd(total, loss)

\* The head of the epoch loop for the value e of range(epochs): either the body starts
\* (the accumulator is reset, the generator is invoked) or the loop is over.
ForEpoch(e) ==
    IF RangeHasNext(e, epochs)
    THEN \E bs \in get_batches_fn(GeneratorArg(batch_size)) :
            /\ epoch' = e
            /\ total_loss' = InitialTotalLoss(total_loss)
            /\ batches' = bs
            /\ drawn' = <<>>
            /\ epoch_sum' = 0
            /\ yielded' = yielded + Len(bs)
            /\ gen_args' = gen_args \cup {GeneratorArg(batch_size)}
            /\ pc' = "EpochRunning"
    ELSE /\ pc' = "Done"
         /\ UNCHANGED <<epoch, total_loss, batches, drawn, epoch_sum, yielded, gen_args>>

\* train_nn is entered
TrainStart ==
    /\ run_pc \in {"train", "test_harness"}
    /\ pc = "Idle"
    /\ ForEpoch(0)
    /\ UNCHANGED <<steps, reports, printed, feeds, failed, params>>
    /\ UNCHANGED <<run_pc, loaded>>
    /\ UNCHANGED configVars
    /\ UNCHANGED inferVars

\* the body takes one more batch from the generator and drops it
TrainStepDrawsTwice ==
    /\ pc = "EpochRunning"
    /\ batches # <<>>
    /\ \E loss \in Losses :
          LET X_batch == Head(batches)
              feed == FeedDict(X_batch, X_batch)
          IN  /\ batches' = IF Len(batches) > 1 THEN Tail(Tail(batches)) ELSE <<>>
              /\ drawn' = Append(drawn, X_batch)
              /\ feeds' = feeds \cup {<<feed.keep_prob, feed.learning_rate>>}
              /\ steps' = steps + 1
              /\ params' = params + 1
              /\ total_loss' = Accumulate(total_loss, loss)
              /\ epoch_sum' = FAdd(epoch_sum, loss)
    /\ UNCHANGED <<pc, epoch, yielded, reports, printed, gen_args, failed>>
    /\ UNCHANGED <<run_pc, loaded>>
    /\ UNCHANGED configVars
    /\ UNCHANGED inferVars

\* a diverged step ends the epoch's batch loop early
TrainStepStopOnNaN ==
    /\ pc = "EpochRunning"
    /\ batches # <<>>
    /\ \E loss \in Losses :
          LET X_batch == Head(batches)
              feed == FeedDict(X_batch, X_batch)
          IN  /\ batches' = IF loss = NaN THEN <<>> ELSE Tail(batches)
              /\ drawn' = Append(drawn, X_batch)
              /\ feeds' = feeds \cup {<<feed.keep_prob, feed.learning_rate>>}
              /\ steps' = steps + 1
              /\ params' = params + 1
              /\ total_loss' = Accumulate(total_loss, loss)
              /\ epoch_sum' = FAdd(epoch_sum, loss)
    /\ UNCHANGED <<pc, epoch, yielded, reports, printed, gen_args, failed>>
    /\ UNCHANGED <<run_pc, loaded>>
    /\ UNCHANGED configVars
    /\ UNCHANGED inferVars

\* one iteration of the batch loop: the next batch is drawn, sess.run performs the
\* optimization step and returns the loss, the loss is accumulated
TrainStep ==
    /\ pc = "EpochRunning"
    /\ batches # <<>>
    /\ \E loss \in Losses :
          LET X_batch == Head(batches)
              feed == FeedDict(X_batch, X_batch)
          IN  /\ batches' = Tail(batches)
              /\ drawn' = Append(drawn, X_batch)
              /\ feeds' = feeds \cup {<<feed.keep_prob, feed.learning_rate>>}
              /\ steps' = steps + 1
              /\ params' = params + 1
              /\ total_loss' = Accumulate(total_loss, loss)
              /\ epoch_sum' = FAdd(epoch_sum, loss)
    /\ UNCHANGED <<pc, epoch, yielded, reports, printed, gen_args, failed>>
    /\ UNCHANGED <<run_pc, loaded>>
    /\ UNCHANGED configVars
    /\ UNCHANGED inferVars

\* a failed step is caught and the loop goes on with the next batch
TrainStepRetry ==
    /\ pc = "EpochRunning"
    /\ batches # <<>>
    /\ batches' = Tail(batches)
    /\ drawn' = Append(drawn, Head(batches))
    /\ failed' = TRUE
    /\ UNCHANGED <<pc, epoch, total_loss, epoch_sum, steps, yielded, reports, printed,
                   feeds, gen_args, params>>
    /\ UNCHANGED <<run_pc, loaded>>
    /\ UNCHANGED configVars
    /\ UNCHANGED inferVars

\* one iteration of the batch loop in which sess.run raises: nothing catches the
\* exception, it leaves train_nn and, in run(), run() itself
TrainStepRaise ==
    /\ pc = "EpochRunning"
    /\ batches # <<>>
    /\ batches' = Tail(batches)
    /\ drawn' = Append(drawn, Head(batches))
    /\ failed' = TRUE
    /\ pc' = "Raised"
    /\ run_pc' = IF run_pc = "train" THEN "aborted" ELSE run_pc
    /\ UNCHANGED <<epoch, total_loss, epoch_sum, steps, yielded, reports, printed,
                   feeds, gen_args, params, loaded>>
    /\ UNCHANGED configVars
    /\ UNCHANGED inferVars

\* the generator is exhausted: the epoch's loss is printed and the epoch loop goes on
TrainEpochEnd ==
    /\ pc = "EpochRunning"
    /\ batches = <<>>
    /\ reports' = reports + 1
    /\ printed' = [epoch |-> epoch + 1, loss |-> Format3f(total_loss),
                   epoch_sum |-> epoch_sum, batches |-> Len(drawn)]
    /\ ForEpoch(epoch + 1)
    /\ UNCHANGED <<steps, feeds, failed, params>>
    /\ UNCHANGED <<run_pc, loaded>>
    /\ UNCHANGED configVars
    /\ UNCHANGED inferVars

\* ---- run (main.py:142-182) ----

\* the dataset check is performed and its failure ignored
RunCheckDatasetIgnored ==
    /\ run_pc = "start"
    /\ run_pc' = "download"
    /\ UNCHANGED <<pc, epoch, total_loss, batches, drawn, epoch_sum, steps, yielded,
                   reports, printed, feeds, gen_args, failed, params, loaded>>
    /\ UNCHANGED configVars
    /\ UNCHANGED inferVars

\* tests.test_for_kitti_dataset(data_dir): a missing dataset raises, and nothing in
\* run() catches it
RunCheckDataset ==
    /\ run_pc = "start"
    /\ run_pc' = IF dataset_ok THEN "download" ELSE "aborted"
    /\ UNCHANGED <<pc, epoch, total_loss, batches, drawn, epoch_sum, steps, yielded,
                   reports, printed, feeds, gen_args, failed, params, loaded>>
    /\ UNCHANGED configVars
    /\ UNCHANGED inferVars

\* helper.maybe_download_pretrained_vgg(data_dir): the model directory is there or is
\* fetched; when it cannot be had the call raises
RunDownloadVgg ==
    /\ run_pc = "download"
    /\ \E vgg_ok \in BOOLEAN : run_pc' = IF vgg_ok THEN "session" ELSE "aborted"
    /\ UNCHANGED <<pc, epoch, total_loss, batches, drawn, epoch_sum, steps, yielded,
                   reports, printed, feeds, gen_args, failed, params, loaded>>
    /\ UNCHANGED configVars
    /\ UNCHANGED inferVars

\* the session is opened, the batch function is made, load_vgg loads the pretrained
\* model and its weights into the session, layers and optimize build the rest
RunBuildModel ==
    /\ run_pc = "session"
    /\ loaded' = TRUE
    /\ params' = params + 1
    /\ run_pc' = "init"
    /\ UNCHANGED <<pc, epoch, total_loss, batches, drawn, epoch_sum, steps, yielded,
                   reports, printed, feeds, gen_args, failed>>
    /\ UNCHANGED configVars
    /\ UNCHANGED inferVars

\* sess.run(tf.global_variables_initializer()); train_nn is called next
RunInitVariables ==
    /\ run_pc = "init"
    /\ params' = params + 1
    /\ run_pc' = "train"
    /\ UNCHANGED <<pc, epoch, total_loss, batches, drawn, epoch_sum, steps, yielded,
                   reports, printed, feeds, gen_args, failed, loaded>>
    /\ UNCHANGED configVars
    /\ UNCHANGED inferVars

\* the export is called without waiting for train_nn
RunSaveInferenceEarly ==
    /\ run_pc = "train"
    /\ pc \in {"Idle", "Done"}
    /\ run_pc' = "infer"
    /\ UNCHANGED <<pc, epoch, total_loss, batches, drawn, epoch_sum, steps, yielded,
                   reports, printed, feeds, gen_args, failed, params, loaded>>
    /\ UNCHANGED configVars
    /\ UNCHANGED inferVars

\* the export is left out
RunSkipInference ==
    /\ run_pc = "train"
    /\ pc = "Done"
    /\ run_pc' = "done"
    /\ UNCHANGED <<pc, epoch, total_loss, batches, drawn, epoch_sum, steps, yielded,
                   reports, printed, feeds, gen_args, failed, params, loaded>>
    /\ UNCHANGED configVars
    /\ UNCHANGED inferVars

\* train_nn has returned: helper.save_inference_samples(...) is called
RunSaveInference ==
    /\ run_pc = "train"
    /\ pc = "Done"
    /\ run_pc' = "infer"
    /\ UNCHANGED <<pc, epoch, total_loss, batches, drawn, epoch_sum, steps, yielded,
                   reports, printed, feeds, gen_args, failed, params, loaded>>
    /\ UNCHANGED configVars
    /\ UNCHANGED inferVars

\* ---- helper.save_inference_samples ----

\* the timestamped output directory is made and the test directory is listed
SaveInferenceStart ==
    /\ run_pc = "infer"
    /\ \E d \in 1..MaxRunStamps : output_dir' = d
    /\ pending' = 1..num_test_images
    /\ infer_started' = TRUE
    /\ run_pc' = "saving"
    /\ UNCHANGED outputs
    /\ UNCHANGED <<pc, epoch, total_loss, batches, drawn, epoch_sum, steps, yielded,
                   reports, printed, feeds, gen_args, failed, params, loaded>>
    /\ UNCHANGED configVars

\* one test image: a forward pass, the overlay, the file written
SaveInferenceImage ==
    /\ run_pc = "saving"
    /\ \E i \in pending :
          /\ outputs' = outputs \cup {<<output_dir, i>>}
          /\ pending' = pending \ {i}
    /\ UNCHANGED <<run_pc, infer_started, output_dir>>
    /\ UNCHANGED <<pc, epoch, total_loss, batches, drawn, epoch_sum, steps, yielded,
                   reports, printed, feeds, gen_args, failed, params, loaded>>
    /\ UNCHANGED configVars

\* every test image is done: the export returns, and so does run()
SaveInferenceEnd ==
    /\ run_pc = "saving"
    /\ pending = {}
    /\ run_pc' = "done"
    /\ UNCHANGED <<pc, epoch, total_loss, batches, drawn, epoch_sum, steps, yielded,
                   reports, printed, feeds, gen_args, failed, params, loaded>>
    /\ UNCHANGED configVars
    /\ UNCHANGED inferVars

\* ---- the specification ----

\* run() is about to start: the arguments of train_nn are the module constants
InitRun ==
    /\ run_pc = "start"
    /\ dataset_ok \in BOOLEAN
    /\ num_samples \in (IF dataset_ok THEN 1..MaxRunSamples ELSE {0})
    /\ num_test_images \in (IF dataset_ok THEN 0..MaxTestImages ELSE {0})
    /\ gen_kind = "helper"
    /\ epochs = NUM_EPOCHS
    /\ batch_size = BATCH_SIZE

\* train_nn is about to be called directly, with a generator that is the helper's or
\* the caller's own
InitHarness ==
    /\ run_pc = "test_harness"
    /\ dataset_ok = TRUE
    /\ gen_kind \in {"helper", "stub"}
    /\ num_samples \in (IF gen_kind = "helper" THEN 0..MaxSamples ELSE {0})
    /\ num_test_images = 0
    /\ epochs \in 0..MaxEpochs
    /\ batch_size \in 1..MaxBatchSize

\* the end-to-end scenario: one epoch, batches of 2, a training set of 4 samples
InitScenario ==
    /\ run_pc = "test_harness"
    /\ dataset_ok = TRUE
    /\ gen_kind = "helper"
    /\ num_samples = 4
    /\ num_test_images = 0
    /\ epochs = 1
    /\ batch_size = 2

Init ==
    /\ InitRun \/ InitHarness \/ InitScenario
    /\ pc = "Idle"
    /\ epoch = -1
    /\ total_loss = 0
    /\ batches = <<>>
    /\ drawn = <<>>
    /\ epoch_sum = 0
    /\ steps = 0
    /\ yielded = 0
    /\ reports = 0
    /\ printed = [epoch |-> 0, loss |-> Format3f(0), epoch_sum |-> 0, batches |-> 0]
    /\ feeds = {}
    /\ gen_args = {}
    /\ params = 0
    /\ loaded = FALSE
    /\ failed = FALSE
    /\ infer_started = FALSE
    /\ output_dir = 0
    /\ pending = {}
    /\ outputs = {}

Next ==
    \/ RunCheckDataset
    \/ RunDownloadVgg
    \/ RunBuildModel
    \/ RunInitVariables
    \/ TrainStart
    \/ TrainStep
    \/ TrainStepRaise
    \/ TrainEpochEnd
    \/ RunSaveInference
    \/ SaveInferenceStart
    \/ SaveInferenceImage
    \/ SaveInferenceEnd

Spec == Init /\ [][Next]_vars

\* The script is one sequential thread: whatever statement is next is executed.
FairSpec == Spec /\ WF_vars(Next)

\* ---- the properties ----

Samples == 1..num_samples

DrawnSamples == Flatten(drawn)

ExpectedOutputs == {<<output_dir, i>> : i \in 1..num_test_images}

\* C1: a run of train_nn that does not fail has performed one optimization step per
\* batch its generators yielded and has printed one loss per epoch, whatever the losses
\* were; with epochs = 1 and batch_size = 2 over 4 samples that is 2 steps and 1 report.
C1_StepPerBatchReportPerEpoch ==
    pc = "Done" =>
        /\ steps = yielded
        /\ reports = epochs
        /\ (gen_kind = "helper" /\ epochs = 1 /\ batch_size = 2 /\ num_samples = 4)
              => (steps = 2 /\ reports = 1)

C1_Witness ==
    /\ pc = "Done"
    /\ gen_kind = "helper" /\ epochs = 1 /\ batch_size = 2 /\ num_samples = 4
    /\ steps = 2 /\ reports = 1
    /\ total_loss = NaN

\* C2: in every epoch the batches drawn from one invocation of the helper's generator
\* hold no sample twice, and once the generator is exhausted they hold every sample of
\* the training set.
C2_EverySampleExactlyOnce ==
    (gen_kind = "helper" /\ (pc = "EpochRunning" \/ reports > 0 \/ failed)) =>
        /\ NoDup(DrawnSamples)
        /\ Range(DrawnSamples) \subseteq Samples
        /\ batches = <<>> => Range(DrawnSamples) = Samples

C2_Witness ==
    /\ gen_kind = "helper"
    /\ pc = "EpochRunning"
    /\ epoch = 1
    /\ batches = <<>>
    /\ Len(drawn) = 2
    /\ Len(DrawnSamples) = 3

\* C3: of the batches of one epoch every one but the last has exactly batch_size
\* samples, and the last has at least 1 and at most batch_size.
C3_BatchSizes ==
    gen_kind = "helper" =>
        \A i \in 1..Len(drawn) :
            /\ Len(drawn[i]) >= 1
            /\ Len(drawn[i]) <= batch_size
            /\ (i < Len(drawn) \/ batches # <<>>) => Len(drawn[i]) = batch_size

C3_Witness ==
    /\ gen_kind = "helper"
    /\ batch_size = 2
    /\ batches = <<>>
    /\ Len(drawn) = 2
    /\ Len(drawn[1]) = 2
    /\ Len(drawn[2]) = 1

\* C4: a failed optimization step is fatal: the loop is left for good, no further step
\* is performed, no loss is printed for the failing epoch or any later one, and the
\* inference export never starts.
C4_StepFailureIsFatal ==
    /\ [](failed =>
            /\ pc = "Raised"
            /\ run_pc \in {"aborted", "test_harness"}
            /\ reports = epoch
            /\ printed.epoch <= epoch
            /\ ~infer_started
            /\ outputs = {})
    /\ [][failed => (steps' = steps /\ reports' = reports /\ params' = params
                     /\ drawn' = drawn)]_vars

C4_Witness ==
    /\ failed
    /\ run_pc = "aborted"
    /\ epoch >= 1
    /\ steps >= 1
    /\ reports = epoch

\* C5: when the dataset check of run() fails the run is aborted there: the model is not
\* loaded, the generator is not invoked, no optimization step is performed and no
\* inference output is written; the same holds of a run aborted for want of the
\* pretrained model.
C5_DatasetErrorBeforeTraining ==
    /\ (run_pc # "test_harness" /\ ~dataset_ok) =>
          /\ run_pc \in {"start", "aborted"}
          /\ ~loaded
          /\ params = 0
          /\ pc = "Idle"
          /\ gen_args = {}
          /\ steps = 0
          /\ ~infer_started
          /\ outputs = {}
    /\ (run_pc = "aborted" /\ ~failed) =>
          (~loaded /\ params = 0 /\ pc = "Idle" /\ steps = 0 /\ outputs = {})

C5_Witness == run_pc = "aborted" /\ ~dataset_ok /\ ~loaded

\* C6: the inference export writes one file per test image and no other file, all in
\* the one output directory of the run; when run() is done there are exactly as many
\* files as test images.
C6_OneOutputPerTestImage ==
    /\ outputs \subseteq ExpectedOutputs
    /\ run_pc = "done" =>
          /\ outputs = ExpectedOutputs
          /\ Cardinality(outputs) = num_test_images

C6_Witness ==
    /\ run_pc = "done"
    /\ num_test_images = 2
    /\ Cardinality(outputs) = 2

\* C7: the loop is in one of Idle, EpochRunning, Done unless a step failed; it reaches
\* Done (unless a step fails or run() is aborted before the loop) with exactly epochs
\* epochs run, and never leaves Done; an epoch ends only with its generator exhausted;
\* with epochs = 0 Done is reached with no step and no report.
C7_LoopStateMachine ==
    /\ [](pc \in {"Idle", "EpochRunning", "Done"} \/ failed)
    /\ <>(pc = "Done" \/ failed \/ run_pc = "aborted")
    /\ [](pc = "Done" => (reports = epochs /\ epoch = epochs - 1))
    /\ [][pc = "Done" => pc' = "Done"]_vars
    /\ [][(reports' # reports \/ epoch' # epoch) => (pc = "Idle" \/ batches = <<>>)]_vars
    /\ [](pc = "Done" /\ epochs = 0 => (steps = 0 /\ reports = 0 /\ gen_args = {}))

C7_Witness ==
    /\ pc = "Done"
    /\ epochs = 2
    /\ reports = 2
    /\ steps = 4

\* C8: the loss printed for an epoch is the sum of the losses returned by the steps of
\* that epoch alone: the accumulator holds the sum of the current epoch's losses, and an
\* epoch without batches prints 0.
C8_ReportedLossIsEpochSum ==
    /\ pc = "EpochRunning" => total_loss = epoch_sum
    /\ reports > 0 => printed.loss = Format3f(printed.epoch_sum)
    /\ (reports > 0 /\ printed.batches = 0) => printed.loss = Format3f(0)

C8_Witness ==
    /\ pc = "EpochRunning"
    /\ epoch = 1
    /\ printed.epoch = 1
    /\ printed.epoch_sum = 2
    /\ drawn # <<>>
    /\ total_loss = 1

\* C9: the inference export starts only with the training loop done after all its
\* epochs; once it has started no optimization step is performed and the model
\* parameters do not change; after the model is built and initialized the parameters are
\* written by optimization steps alone.
C9_InferenceAfterTraining ==
    /\ [](infer_started => (pc = "Done" /\ reports = epochs /\ ~failed))
    /\ [][infer_started => (steps' = steps /\ params' = params)]_vars
    /\ [][params' # params =>
            \/ run_pc \in {"session", "init"}
            \/ (pc = "EpochRunning" /\ steps' = steps + 1)]_vars

C9_Witness ==
    /\ run_pc = "saving"
    /\ outputs # {}
    /\ steps = NUM_EPOCHS
    /\ params = NUM_EPOCHS + 2

\* C10: every optimization step is fed the keep probability KP_VALUE and the learning
\* rate LR_VALUE, every invocation of the generator is passed batch_size, and epochs and
\* batch_size never change.
C10_HyperparametersConstant ==
    /\ [](feeds \subseteq {<<KP_VALUE, LR_VALUE>>})
    /\ [](gen_args \subseteq {batch_size})
    /\ [](run_pc # "test_harness" => (epochs = NUM_EPOCHS /\ batch_size = BATCH_SIZE))
    /\ [][epochs' = epochs /\ batch_size' = batch_size]_vars

C10_Witness ==
    /\ epoch = 1
    /\ steps >= 3
    /\ Len(drawn) = 1
    /\ Len(drawn[1]) = 2
    /\ feeds = {<<KP_VALUE, LR_VALUE>>}
    /\ gen_args = {batch_size}

====
